---- MODULE Spec2Model ----
(***************************************************************************)
(* Interpolation, quadrature and time-stepping routines of                 *)
(* Miniproyecto1/numericalMethods (interpolation.py, integration.py,       *)
(* finiteDifferences.py).                                                  *)
(*                                                                         *)
(* Numbers are the exact values sympy computes with: a rational is a pair  *)
(* <<num, den>> in lowest terms with den > 0.  sympy does not raise on a   *)
(* division by zero: 1/0 is zoo (ComplexInfinity, <<1, 0>> here) and       *)
(* 0*zoo, zoo+zoo are nan (<<0, 0>> here).  A symbolic expression in x is  *)
(* a polynomial, held as the sequence of its coefficients, constant term   *)
(* first.  Machine floats (0.5, 3/5, ...) are held as the reals they       *)
(* stand for.                                                              *)
(***************************************************************************)
EXTENDS Integers, Sequences, FiniteSets, TLC

VARIABLES
    pc,                \* "idle" | "loop" | "sum" | "sum2" | "returned" | "raised"
    op,                \* the function that was called ("none" before a call)
    points,            \* argument points: a sequence of <<x, y>>
    pts_per_interval,  \* argument pts_per_interval
    start,             \* piecewise_lagrange_interpolation: local start
    pieces,            \* piecewise_lagrange_interpolation: local pieces
    windows,           \* the sub_points handed to lagrange_interpolation, in order
    expr,              \* argument expr (a polynomial in x)
    lower_bound,       \* argument lower_bound
    upper_bound,       \* argument upper_bound
    n,                 \* argument n
    n_used,            \* the local n after the rule's adjustment
    integration_method,\* argument integration_method of revolution_solid_volume
    calls,             \* the calls revolution_solid_volume made to its integration_method
    f_rhs,             \* argument f of the time steppers (the name of a right-hand side)
    t0,                \* argument t0
    x0,                \* argument x0
    h_step,            \* argument h
    steps,             \* argument steps
    theta,             \* argument theta of theta_method
    loop_i,            \* a quadrature rule's loop variable i
    running_total,     \* a quadrature rule's local total
    iterations,        \* the passes a quadrature rule's loops have made
    evals,             \* simpson_rule, simpson_38_rule: the expr.subs calls made, in order
    ret,               \* the value returned (NoValue when none)
    err                \* the exception raised ("none" when none)

vars == <<pc, op, points, pts_per_interval, start, pieces, windows, expr,
          lower_bound, upper_bound, n, n_used, integration_method, calls,
          f_rhs, t0, x0, h_step, steps, theta, loop_i, running_total, iterations,
          evals, ret, err>>

interpVars == <<points, pts_per_interval, start, pieces, windows>>

quadVars == <<expr, lower_bound, upper_bound, n, n_used, integration_method, calls>>

odeVars == <<f_rhs, t0, x0, h_step, steps, theta>>

loopVars == <<loop_i, running_total, iterations, evals>>

(***************************************************************************)
(* Bounds of the model.                                                    *)
(***************************************************************************)
MaxPts == 3        \* lagrange_interpolation: at most this many points
MaxX == 2          \* x-coordinates are 0..MaxX
MaxLen == 4        \* piecewise_lagrange_interpolation: at most this many points
MaxK == 3          \* pts_per_interval is 2..MaxK
YVals == {0, 1, 2}

NoValue == <<>>

(***************************************************************************)
(* Exact arithmetic, as sympy's Rational / zoo / nan.                      *)
(***************************************************************************)
Abs(i) == IF i < 0 THEN -i ELSE i

Min(i, j) == IF i < j THEN i ELSE j

Max(i, j) == IF i > j THEN i ELSE j

RECURSIVE GCD(_, _)
GCD(i, j) == IF j = 0 THEN i ELSE GCD(j, i % j)

\* num/den in lowest terms; x/0 is zoo for x # 0 and nan for x = 0
Norm(num, den) ==
    IF den = 0 THEN <<IF num = 0 THEN 0 ELSE 1, 0>>
    ELSE LET g == GCD(Abs(num), Abs(den))
             s == IF den < 0 THEN -1 ELSE 1
         IN  <<s * (num \div g), s * (den \div g)>>

Q(i) == <<i, 1>>

Zero == Q(0)

One == Q(1)

Half == <<1, 2>>

zoo == <<1, 0>>

nan == <<0, 0>>

QNeg(q) == <<-q[1], q[2]>>

QAdd(p, q) ==
    IF p[2] = 0 \/ q[2] = 0
    THEN Norm(p[1] * q[2] + q[1] * p[2], 0)
    ELSE IF p[1] = 0 THEN q
    ELSE IF q[1] = 0 THEN p
    ELSE LET g == GCD(p[2], q[2])
         IN  Norm(p[1] * (q[2] \div g) + q[1] * (p[2] \div g), (p[2] \div g) * q[2])

QSub(p, q) == QAdd(p, QNeg(q))

QMul(p, q) ==
    IF p[2] = 0 \/ q[2] = 0
    THEN Norm(p[1] * q[1], 0)
    ELSE IF p[1] = 0 \/ q[1] = 0 THEN Zero
    ELSE LET g1 == GCD(Abs(p[1]), q[2])
             g2 == GCD(Abs(q[1]), p[2])
         IN  Norm((p[1] \div g1) * (q[1] \div g2), (p[2] \div g2) * (q[2] \div g1))

\* sympy: a / b is a * b**-1, and 0**-1 is zoo
QInv(q) == IF q[1] = 0 THEN (IF q[2] = 0 THEN nan ELSE zoo)
           ELSE IF q[2] = 0 THEN Zero
           ELSE Norm(q[2], q[1])

QDiv(p, q) == QMul(p, QInv(q))

(***************************************************************************)
(* Symbolic expressions in x: polynomials as coefficient sequences.        *)
(***************************************************************************)
Coef(p, k) == IF k <= Len(p) THEN p[k] ELSE Zero

\* the sequence f with every element worked out
AsSeq(f) == SubSeq(f, 1, Len(f))

PolyAdd(p, q) == AsSeq([k \in 1..Max(Len(p), Len(q)) |-> QAdd(Coef(p, k), Coef(q, k))])

PolyScale(p, c) == AsSeq([k \in 1..Len(p) |-> QMul(p[k], c)])

RECURSIVE ConvSum(_, _, _, _)
ConvSum(p, q, k, i) ==
    IF i > Len(p) THEN Zero
    ELSE IF k - i + 1 >= 1 /\ k - i + 1 <= Len(q)
         THEN QAdd(QMul(p[i], q[k - i + 1]), ConvSum(p, q, k, i + 1))
         ELSE ConvSum(p, q, k, i + 1)

PolyMul(p, q) ==
    IF Len(p) = 0 \/ Len(q) = 0 THEN <<>>
    ELSE AsSeq([k \in 1..(Len(p) + Len(q) - 1) |-> ConvSum(p, q, k, 1)])

\* expr.subs(x, v): the value of the expression at x = v
RECURSIVE Horner(_, _, _, _)
Horner(p, k, v, acc) ==
    IF k = 0 THEN acc ELSE Horner(p, k - 1, v, QAdd(QMul(acc, v), p[k]))

Subs(p, v) == Horner(p, Len(p), v, Zero)

\* sp.simplify of a polynomial: its canonical form, without trailing zero terms
RECURSIVE Simplify(_)
Simplify(p) ==
    IF Len(p) > 0 /\ p[Len(p)] = Zero THEN Simplify(SubSeq(p, 1, Len(p) - 1)) ELSE p

(***************************************************************************)
(* interpolation.py                                                        *)
(***************************************************************************)
\* a mutation: the denominator taken as xj - xi
BasisFactorFlipped(xi, xj) == <<QDiv(Q(-xj), Q(xj - xi)), QDiv(One, Q(xj - xi))>>

\* (x - xj) / (xi - xj); with xi = xj the coefficients are zoo or nan, not numbers
BasisFactor(xi, xj) == <<QDiv(Q(-xj), Q(xi - xj)), QDiv(One, Q(xi - xj))>>

\* the inner loop over j: term *= (x - xj) / (xi - xj) for every j # i
RECURSIVE TermLoop(_, _, _, _)
TermLoop(pts, i, j, term) ==
    IF j > Len(pts) THEN term
    ELSE TermLoop(pts, i, j + 1,
                  IF i # j THEN PolyMul(term, BasisFactor(pts[i][1], pts[j][1]))
                  ELSE term)

\* the outer loop over i: poly += term
RECURSIVE PolyLoop(_, _, _)
PolyLoop(pts, i, poly) ==
    IF i > Len(pts) THEN poly
    ELSE PolyLoop(pts, i + 1, PolyAdd(poly, TermLoop(pts, i, 1, <<Q(pts[i][2])>>)))

lagrange_interpolation(pts) == Simplify(PolyLoop(pts, 1, <<>>))

PointDomain == (0..MaxX) \X YVals

SeqsUpTo(S, len) == UNION {[1..k -> S] : k \in 0..len}

Init ==
    /\ pc = "idle"
    /\ op = "none"
    /\ points = <<>>
    /\ pts_per_interval = 0
    /\ start = 0
    /\ pieces = <<>>
    /\ windows = <<>>
    /\ expr = <<>>
    /\ lower_bound = 0
    /\ upper_bound = 0
    /\ n = 0
    /\ n_used = 0
    /\ integration_method = "none"
    /\ calls = <<>>
    /\ f_rhs = "none"
    /\ t0 = 0
    /\ x0 = 0
    /\ h_step = 0
    /\ steps = 0
    /\ theta = 0
    /\ loop_i = 0
    /\ running_total = Zero
    /\ iterations = 0
    /\ evals = <<>>
    /\ ret = NoValue
    /\ err = "none"

\* a call of lagrange_interpolation(points), to its return
LagrangeCall ==
    /\ pc = "idle"
    /\ \E pts \in SeqsUpTo(PointDomain, MaxPts) :
        /\ points' = pts
        /\ ret' = lagrange_interpolation(pts)
    /\ op' = "lagrange_interpolation"
    /\ pc' = "returned"
    /\ err' = "none"
    /\ UNCHANGED <<loopVars, odeVars, pts_per_interval, start, pieces, windows, quadVars>>

\* src/numericalMethods/interpolation.py: the same loops, returned unsimplified
lagrange_interpolation_raw(pts) == PolyLoop(pts, 1, <<>>)

\* a call of the unsimplified lagrange_interpolation(points), to its return
LagrangeRawCall ==
    /\ pc = "idle"
    /\ \E pts \in SeqsUpTo(PointDomain, MaxPts) :
        /\ points' = pts
        /\ ret' = lagrange_interpolation_raw(pts)
    /\ op' = "lagrange_interpolation_raw"
    /\ pc' = "returned"
    /\ err' = "none"
    /\ UNCHANGED <<loopVars, odeVars, pts_per_interval, start, pieces, windows, quadVars>>

NextLagrange == LagrangeCall \/ LagrangeRawCall

SpecLagrange == Init /\ [][NextLagrange]_vars

(***************************************************************************)
(* piecewise_lagrange_interpolation, one action per step of its loop.      *)
(***************************************************************************)
\* sample values for the piecewise inputs: one of two profiles of x
SampleY(s, x) == IF s = 1 THEN x * x - 1 ELSE 2 - x

\* a mutation: the window taken one point too long
WindowEndLong(st, k, num_points) == Min(st + k + 1, num_points)

\* end = min(start + pts_per_interval, num_points)
WindowEnd(st, k, num_points) == Min(st + k, num_points)

\* a mutation: the window moved on by one point
NextStartByOne(st, k) == st + 1

\* a mutation: the next window started past the last point of this one
NextStartNoOverlap(st, k) == st + k

\* start += pts_per_interval - 1
NextStart(st, k) == st + k - 1

\* points[start:end], Python's 0-based half-open slice
Slice(pts, st, end) == SubSeq(pts, st + 1, end)

\* lines 38-41: pieces = [], num_points = len(points), start = 0
PiecewiseCall ==
    /\ pc = "idle"
    /\ \E xs \in SeqsUpTo(0..(MaxLen - 1), MaxLen), s \in 1..2 :
        points' = [i \in 1..Len(xs) |-> <<xs[i], SampleY(s, xs[i])>>]
    /\ \E k \in 2..MaxK : pts_per_interval' = k
    /\ op' = "piecewise_lagrange_interpolation"
    /\ pc' = "loop"
    /\ start' = 0
    /\ pieces' = <<>>
    /\ windows' = <<>>
    /\ UNCHANGED <<loopVars, odeVars, quadVars, ret, err>>

\* lines 43-49: one pass of the while loop
PiecewiseStep ==
    /\ pc = "loop"
    /\ start < Len(points) - 1
    /\ LET end == WindowEnd(start, pts_per_interval, Len(points))
           sub_points == Slice(points, start, end)
           a == sub_points[1][1]
           b == sub_points[Len(sub_points)][1]
           poly == lagrange_interpolation(sub_points)
       IN  /\ pieces' = Append(pieces, [poly |-> poly, a |-> a, b |-> b])
           /\ windows' = Append(windows, [start |-> start, end |-> end,
                                          sub_points |-> sub_points])
    /\ start' = NextStart(start, pts_per_interval)
    /\ UNCHANGED <<loopVars, odeVars, pc, op, points, pts_per_interval, quadVars, ret, err>>

\* line 51: return sp.Piecewise(*pieces); Piecewise() without a piece raises TypeError
PiecewiseReturn ==
    /\ pc = "loop"
    /\ ~(start < Len(points) - 1)
    /\ IF pieces = <<>>
       THEN pc' = "raised" /\ err' = "TypeError" /\ ret' = NoValue
       ELSE pc' = "returned" /\ err' = "none" /\ ret' = pieces
    /\ UNCHANGED <<loopVars, odeVars, op, interpVars, quadVars>>

NextPiecewise == PiecewiseCall \/ PiecewiseStep \/ PiecewiseReturn

SpecPiecewise == Init /\ [][NextPiecewise]_vars

(***************************************************************************)
(* Claims about interpolation.                                             *)
(***************************************************************************)
DistinctX(pts) == \A i, j \in 1..Len(pts) : i # j => pts[i][1] # pts[j][1]

IsLagrange == op \in {"lagrange_interpolation", "lagrange_interpolation_raw"}

IsPiecewise == op = "piecewise_lagrange_interpolation"

\* C1: for points with pairwise-distinct x (at least one point), the polynomial
\* lagrange_interpolation returns takes the value yi at every xi of the input.
C1_RoundTrip ==
    (IsLagrange /\ pc = "returned" /\ Len(points) >= 1 /\ DistinctX(points))
        => \A i \in 1..Len(points) : Subs(ret, Q(points[i][1])) = Q(points[i][2])

\* the spec's example [(0,1),(1,2),(2,0)] has been interpolated
C1_Witness ==
    /\ IsLagrange /\ pc = "returned"
    /\ points = <<(<<0, 1>>), (<<1, 2>>), (<<2, 0>>)>>
    /\ Subs(ret, Q(0)) = Q(1) /\ Subs(ret, Q(1)) = Q(2) /\ Subs(ret, Q(2)) = Q(0)

RECURSIVE MinXOf(_, _)
MinXOf(pts, k) == IF k = 1 THEN pts[1][1] ELSE Min(pts[k][1], MinXOf(pts, k - 1))

RECURSIVE MaxXOf(_, _)
MaxXOf(pts, k) == IF k = 1 THEN pts[1][1] ELSE Max(pts[k][1], MaxXOf(pts, k - 1))

\* x = g/2 satisfies the condition (x >= a) & (x <= b) of some piece
Covered(ps, g) == \E i \in 1..Len(ps) : 2 * ps[i].a <= g /\ g <= 2 * ps[i].b

\* the pieces' intervals cover exactly [min x, max x]: with integer end points it is
\* enough to look at the integers and the half-integers around the hull
UnionIsHull(ps, pts) ==
    LET lo == MinXOf(pts, Len(pts))
        hi == MaxXOf(pts, Len(pts))
    IN  \A g \in (2 * lo - 1)..(2 * hi + 1) : Covered(ps, g) <=> (2 * lo <= g /\ g <= 2 * hi)

\* C5: for at least 2 points with pairwise-distinct x and pts_per_interval >= 2, the
\* union of the pieces' applicability intervals is exactly [min(x), max(x)].
C5_UnionIsHull ==
    (IsPiecewise /\ pc = "returned" /\ Len(points) >= 2 /\ DistinctX(points)
        /\ pts_per_interval >= 2)
        => UnionIsHull(ret, points)

Sorted(pts) == \A i \in 1..(Len(pts) - 1) : pts[i][1] < pts[i + 1][1]

\* C5, for the inputs the code handles: points given in increasing order of x
C5_SortedUnionIsHull ==
    (IsPiecewise /\ pc = "returned" /\ Len(points) >= 2 /\ Sorted(points))
        => UnionIsHull(ret, points)

Last(sq) == sq[Len(sq)]

\* C6: every window after the first starts pts_per_interval - 1 positions after the
\* previous one, consecutive windows share exactly one sample point (the last of one
\* is the first of the next), and at that point the two pieces take the same value.
C6_Stitch ==
    (IsPiecewise /\ DistinctX(points))
        => \A i \in 1..(Len(windows) - 1) :
            LET w == windows[i]
                v == windows[i + 1]
            IN  /\ v.start = w.start + pts_per_interval - 1
                /\ (w.start..(w.end - 1)) \cap (v.start..(v.end - 1)) = {v.start}
                /\ Last(w.sub_points) = v.sub_points[1]
                /\ pieces[i].b = pieces[i + 1].a
                /\ Subs(pieces[i].poly, Q(pieces[i].b))
                     = Subs(pieces[i + 1].poly, Q(pieces[i].b))
                /\ Subs(pieces[i].poly, Q(pieces[i].b)) = Q(v.sub_points[1][2])

\* a returned piecewise polynomial of three pieces over distinct x
C6_Witness ==
    /\ IsPiecewise /\ pc = "returned" /\ DistinctX(points)
    /\ Len(ret) = 3
    /\ Subs(ret[1].poly, Q(ret[1].b)) = Subs(ret[2].poly, Q(ret[2].a))

\* C7: lagrange_interpolation on points of which two share an x fails with a
\* division-by-zero error and returns nothing.
C7_DuplicateXRaises ==
    (IsLagrange /\ pc # "idle" /\ ~DistinctX(points))
        => (pc = "raised" /\ err = "ZeroDivisionError" /\ ret = NoValue)

\* C8: every window handed to lagrange_interpolation has between 2 and
\* pts_per_interval points, the last one being cut to the points that remain; with
\* fewer than 2 points the call fails and returns nothing.
C8_Windows ==
    IsPiecewise =>
        /\ \A i \in 1..Len(windows) :
            LET w == windows[i]
            IN  /\ 2 <= Len(w.sub_points) /\ Len(w.sub_points) <= pts_per_interval
                /\ Len(w.sub_points) = Min(pts_per_interval, Len(points) - w.start)
                /\ w.sub_points = [j \in 1..Len(w.sub_points) |-> points[w.start + j]]
        /\ (pc \in {"returned", "raised"} /\ Len(points) < 2)
            => (pc = "raised" /\ err # "none" /\ ret = NoValue)
        /\ (pc \in {"returned", "raised"} /\ Len(points) >= 2)
            => (pc = "returned" /\ Len(ret) >= 1)

\* a returned piecewise polynomial whose last window was cut short
C8_Witness ==
    /\ IsPiecewise /\ pc = "returned"
    /\ Len(windows) >= 2
    /\ Len(Last(windows).sub_points) < pts_per_interval
    /\ Len(Last(windows).sub_points) >= 2

\* a call with a single point has failed
C8_WitnessRaised ==
    IsPiecewise /\ pc = "raised" /\ Len(points) = 1

(***************************************************************************)
(* integration.py.  An expression handed to a rule is pi^e.pi * e.poly(x); *)
(* a rule's value v stands for pi^v.pi * v.val.                            *)
(***************************************************************************)
MaxDeg == 3        \* expressions are polynomials of degree <= MaxDeg
MaxB == 1          \* the bounds of integration are integers in -1..MaxB
MaxN == 6          \* n is at most MaxN
MaxVolDeg == 1     \* revolution_solid_volume: the profile has degree <= MaxVolDeg
CoefVals == {0, 1}

Polys(deg) == [1..(deg + 1) -> {Q(c) : c \in CoefVals}]

Expr(poly) == [pi |-> 0, poly |-> poly]

Value(e, val) == [err |-> "none", pi |-> e.pi, val |-> val]

Raise(kind) == [err |-> kind]

\* midpoint_rule, lines 29-31: the loop from i on
RECURSIVE MidpointLoop(_, _, _, _, _, _)
MidpointLoop(poly, lo, dx, cnt, i, total) ==
    IF i >= cnt THEN total
    ELSE LET mid_point == QAdd(lo, QMul(QAdd(Q(i), Half), dx))
         IN  MidpointLoop(poly, lo, dx, cnt, i + 1,
                          QAdd(total, QMul(Subs(poly, mid_point), dx)))

midpoint_rule(e, lo, hi, cnt) ==
    LET dx == QDiv(QSub(hi, lo), Q(cnt))
    IN  Value(e, MidpointLoop(e.poly, lo, dx, cnt, 0, Zero))

\* trapezoidal_rule, lines 61-62: the loop from i on
RECURSIVE TrapezoidLoop(_, _, _, _, _, _)
TrapezoidLoop(poly, lo, dx, cnt, i, total) ==
    IF i >= cnt THEN total
    ELSE LET left == Subs(poly, QAdd(lo, QMul(Q(i), dx)))
             right == Subs(poly, QAdd(lo, QMul(Q(i + 1), dx)))
         IN  TrapezoidLoop(poly, lo, dx, cnt, i + 1,
                           QAdd(total, QDiv(QMul(QAdd(left, right), dx), Q(2))))

trapezoidal_rule(e, lo, hi, cnt) ==
    LET dx == QDiv(QSub(hi, lo), Q(cnt))
    IN  Value(e, TrapezoidLoop(e.poly, lo, dx, cnt, 0, Zero))

\* for i in range(from, to, step): total += weight * expr.subs(x, lower_bound + i * dx)
RECURSIVE WeightedLoop(_, _, _, _, _, _, _, _)
WeightedLoop(poly, lo, dx, i, to, step, weight, total) ==
    IF i >= to THEN total
    ELSE WeightedLoop(poly, lo, dx, i + step, to, step, weight,
                      QAdd(total, QMul(Q(weight), Subs(poly, QAdd(lo, QMul(Q(i), dx))))))

\* a mutation: an odd n rounded down
SimpsonNDown(cnt) == IF cnt % 2 = 1 THEN cnt - 1 ELSE cnt

\* simpson_rule, lines 87-88: n after "if n % 2 == 1: n += 1"
SimpsonN(cnt) == IF cnt % 2 = 1 THEN cnt + 1 ELSE cnt

\* simpson_rule, lines 89-95, with the adjusted n
SimpsonSum(poly, lo, hi, m) ==
    LET dx == QDiv(QSub(hi, lo), Q(m))
        ends == QAdd(Subs(poly, lo), Subs(poly, hi))
        odd == WeightedLoop(poly, lo, dx, 1, m, 2, 4, ends)
        even == WeightedLoop(poly, lo, dx, 2, m - 1, 2, 2, odd)
    IN  QDiv(QMul(even, dx), Q(3))

simpson_rule(e, lo, hi, cnt) == Value(e, SimpsonSum(e.poly, lo, hi, SimpsonN(cnt)))

\* simpson_38_rule, lines 115-116: n after "if n % 3 != 0: n += 3 - (n % 3)"
Simpson38N(cnt) == IF cnt % 3 # 0 THEN cnt + (3 - (cnt % 3)) ELSE cnt

\* simpson_38_rule, lines 121-126: the loop from i on
RECURSIVE Simpson38Loop(_, _, _, _, _, _)
Simpson38Loop(poly, lo, h, m, i, total) ==
    IF i >= m THEN total
    ELSE LET xi == QAdd(lo, QMul(Q(i), h))
         IN  Simpson38Loop(poly, lo, h, m, i + 1,
                           IF i % 3 = 0 THEN QAdd(total, QMul(Q(2), Subs(poly, xi)))
                           ELSE QAdd(total, QMul(Q(3), Subs(poly, xi))))

\* simpson_38_rule, lines 117-128, with the adjusted n
Simpson38Sum(poly, lo, hi, m) ==
    LET h == QDiv(QSub(hi, lo), Q(m))
        ends == QAdd(Subs(poly, lo), Subs(poly, hi))
    IN  QDiv(QMul(QMul(Simpson38Loop(poly, lo, h, m, 1, ends), Q(3)), h), Q(8))

simpson_38_rule(e, lo, hi, cnt) == Value(e, Simpson38Sum(e.poly, lo, hi, Simpson38N(cnt)))

(***************************************************************************)
(* gauss_legendre.  The table's entries are square roots, so the values    *)
(* are held exactly in the field the row lives in:                         *)
(*   a surd <<u, v>> is u + v*r, u and v rational, r the row's inner       *)
(*     square root (r*r = Radicand(row));                                  *)
(*   a node is sgn * sqrt(sq), sq a surd;                                  *)
(*   <<A, B>>, A and B surds, is A + B*t for the node magnitude t at hand  *)
(*     (t*t = sq);                                                         *)
(*   a sum over the nodes is [rat |-> A, irr |-> sq :> B] (one entry per   *)
(*     node magnitude with B # 0): A + the sum of B*sqrt(sq).  1 and the   *)
(*     node magnitudes of a row are linearly independent over the surds,   *)
(*     so two sums are the same number exactly when they are equal here.   *)
(***************************************************************************)
S(q) == <<q, Zero>>

SZero == S(Zero)

SAdd(x, y) == <<QAdd(x[1], y[1]), QAdd(x[2], y[2])>>

SNeg(x) == <<QNeg(x[1]), QNeg(x[2])>>

SScale(x, q) == <<QMul(x[1], q), QMul(x[2], q)>>

SMul(x, y, rr) ==
    <<QAdd(QMul(x[1], y[1]), QMul(QMul(x[2], y[2]), rr)),
      QAdd(QMul(x[1], y[2]), QMul(x[2], y[1]))>>

\* (A + B*t) * (c + g*t) for rationals c and g, with t*t = sq
TMul(X, c, g, sq, rr) ==
    <<SAdd(SScale(X[1], c), SMul(SScale(X[2], g), sq, rr)),
      SAdd(SScale(X[1], g), SScale(X[2], c))>>

\* expr.subs(x, c + g*t)
RECURSIVE THorner(_, _, _, _, _, _, _)
THorner(poly, k, c, g, sq, rr, acc) ==
    IF k = 0 THEN acc
    ELSE LET m == TMul(acc, c, g, sq, rr)
         IN  THorner(poly, k - 1, c, g, sq, rr, <<SAdd(m[1], S(poly[k])), m[2]>>)

TSubs(poly, c, g, sq, rr) == THorner(poly, Len(poly), c, g, sq, rr, <<SZero, SZero>>)

\* the inner square root of a row: sqrt(6/5) in row 4, sqrt(10/7) in row 5
Radicand(row) == IF row = 4 THEN <<6, 5>> ELSE IF row = 5 THEN <<10, 7>> ELSE Zero

Node(sgn, sq) == [sgn |-> sgn, sq |-> sq]

\* lines 144-150: nodes; sqrt(3)/3 = sqrt(1/3), 1/3*sqrt(5 -+ 2r) = sqrt((5 -+ 2r)/9)
nodes ==
    <<  <<Node(0, SZero)>>,
        <<Node(-1, S(<<1, 3>>)), Node(1, S(<<1, 3>>))>>,
        <<Node(-1, S(<<3, 5>>)), Node(0, SZero), Node(1, S(<<3, 5>>))>>,
        <<Node(-1, <<(<<3, 7>>), (<<-2, 7>>)>>), Node(1, <<(<<3, 7>>), (<<-2, 7>>)>>),
          Node(-1, <<(<<3, 7>>), (<<2, 7>>)>>), Node(1, <<(<<3, 7>>), (<<2, 7>>)>>)>>,
        <<Node(-1, <<(<<5, 9>>), (<<-2, 9>>)>>), Node(-1, <<(<<5, 9>>), (<<2, 9>>)>>),
          Node(0, SZero),
          Node(1, <<(<<5, 9>>), (<<-2, 9>>)>>), Node(1, <<(<<5, 9>>), (<<2, 9>>)>>)>>  >>

\* lines 152-158: weights; sqrt(30) = 5*sqrt(6/5), sqrt(70) = 7*sqrt(10/7)
weights ==
    <<  <<S(Q(2))>>,
        <<S(One), S(One)>>,
        <<S(<<5, 9>>), S(<<8, 9>>), S(<<5, 9>>)>>,
        <<(<<(<<1, 2>>), (<<5, 36>>)>>), (<<(<<1, 2>>), (<<5, 36>>)>>),
          (<<(<<1, 2>>), (<<-5, 36>>)>>), (<<(<<1, 2>>), (<<-5, 36>>)>>)>>,
        <<(<<(<<161, 450>>), (<<91, 900>>)>>), (<<(<<161, 450>>), (<<91, 900>>)>>),
          S(<<128, 225>>),
          (<<(<<161, 450>>), (<<-91, 900>>)>>), (<<(<<161, 450>>), (<<-91, 900>>)>>)>>  >>

\* weights[n][i] * expr.subs(x, (b - a)/2 * nodes[n][i] + (b + a)/2), as A + B*t
GaussTerm(poly, lo, hi, row, i) ==
    LET nd == nodes[row][i]
        rr == Radicand(row)
        f == TSubs(poly, QDiv(QAdd(hi, lo), Q(2)), QMul(QDiv(QSub(hi, lo), Q(2)), Q(nd.sgn)),
                   nd.sq, rr)
    IN  <<SMul(weights[row][i], f[1], rr), SMul(weights[row][i], f[2], rr)>>

\* the sum of the terms i <= k whose node magnitude is sqrt(sq), taken in part j
RECURSIVE SSum(_, _, _, _, _)
SSum(terms, row, sq, j, k) ==
    IF k = 0 THEN SZero
    ELSE IF nodes[row][k].sq = sq THEN SAdd(terms[k][j], SSum(terms, row, sq, j, k - 1))
         ELSE SSum(terms, row, sq, j, k - 1)

\* the sum of the rational parts of the terms i <= k
RECURSIVE RatSum(_, _)
RatSum(terms, k) == IF k = 0 THEN SZero ELSE SAdd(terms[k][1], RatSum(terms, k - 1))

\* line 163: sum(... for i in range(n)), then line 165: total * (b - a) / 2
GaussSum(poly, lo, hi, row) ==
    LET terms == AsSeq([i \in 1..row |-> GaussTerm(poly, lo, hi, row, i)])
        scale == QDiv(QSub(hi, lo), Q(2))
        sqs == {nodes[row][i].sq : i \in 1..row}
        all == [sq \in sqs |-> SScale(SSum(terms, row, sq, 2, row), scale)]
        live == {sq \in sqs : all[sq] # SZero}
    IN  [rat |-> SScale(RatSum(terms, row), scale), irr |-> [sq \in live |-> all[sq]]]

\* a mutation: the table cut to the rows the docstring names (1, 2 or 3)
InTableDocstring(cnt) == cnt \in 1..3

\* line 160: n in nodes and n in weights
InTable(cnt) == cnt \in DOMAIN nodes /\ cnt \in DOMAIN weights

gauss_legendre(e, lo, hi, cnt) ==
    IF ~InTable(cnt) THEN Raise("ValueError")
    ELSE Value(e, GaussSum(e.poly, lo, hi, cnt))

Rules == {"midpoint_rule", "trapezoidal_rule", "simpson_rule", "simpson_38_rule",
          "gauss_legendre"}

\* integration_method(expr, lower_bound, upper_bound, n)
Rule(method, e, lo, hi, cnt) ==
    CASE method = "midpoint_rule" -> midpoint_rule(e, lo, hi, cnt)
      [] method = "trapezoidal_rule" -> trapezoidal_rule(e, lo, hi, cnt)
      [] method = "simpson_rule" -> simpson_rule(e, lo, hi, cnt)
      [] method = "simpson_38_rule" -> simpson_38_rule(e, lo, hi, cnt)
      [] method = "gauss_legendre" -> gauss_legendre(e, lo, hi, cnt)

\* the n a rule works with after its adjustment
AdjustedN(method, cnt) ==
    CASE method = "simpson_rule" -> SimpsonN(cnt)
      [] method = "simpson_38_rule" -> Simpson38N(cnt)
      [] OTHER -> cnt

\* a call of a rule with its arguments, to its return or its raise
Returns(name, method, e, lo, hi, cnt) ==
    \E r \in {Rule(method, e, Q(lo), Q(hi), cnt)} :
        /\ op' = name
        /\ expr' = e
        /\ lower_bound' = lo
        /\ upper_bound' = hi
        /\ n' = cnt
        /\ n_used' = AdjustedN(method, cnt)
        /\ IF r.err # "none"
           THEN pc' = "raised" /\ err' = r.err /\ ret' = NoValue
           ELSE pc' = "returned" /\ err' = "none" /\ ret' = [pi |-> r.pi, val |-> r.val]

Bounds == (-1)..MaxB

MidpointCall ==
    /\ pc = "idle"
    /\ \E poly \in Polys(MaxDeg), lo \in Bounds, hi \in Bounds, cnt \in 1..MaxN :
        Returns("midpoint_rule", "midpoint_rule", Expr(poly), lo, hi, cnt)
    /\ UNCHANGED <<loopVars, odeVars, interpVars, integration_method, calls>>

TrapezoidalCall ==
    /\ pc = "idle"
    /\ \E poly \in Polys(MaxDeg), lo \in Bounds, hi \in Bounds, cnt \in 1..MaxN :
        Returns("trapezoidal_rule", "trapezoidal_rule", Expr(poly), lo, hi, cnt)
    /\ UNCHANGED <<loopVars, odeVars, interpVars, integration_method, calls>>

SimpsonCall ==
    /\ pc = "idle"
    /\ \E poly \in Polys(MaxDeg), lo \in Bounds, hi \in Bounds, cnt \in 1..MaxN :
        Returns("simpson_rule", "simpson_rule", Expr(poly), lo, hi, cnt)
    /\ UNCHANGED <<loopVars, odeVars, interpVars, integration_method, calls>>

Simpson38Call ==
    /\ pc = "idle"
    /\ \E poly \in Polys(MaxDeg), lo \in Bounds, hi \in Bounds, cnt \in 1..MaxN :
        Returns("simpson_38_rule", "simpson_38_rule", Expr(poly), lo, hi, cnt)
    /\ UNCHANGED <<loopVars, odeVars, interpVars, integration_method, calls>>

GaussCall ==
    /\ pc = "idle"
    /\ \E poly \in Polys(MaxDeg), lo \in Bounds, hi \in Bounds, cnt \in (-1)..MaxN :
        Returns("gauss_legendre", "gauss_legendre", Expr(poly), lo, hi, cnt)
    /\ UNCHANGED <<loopVars, odeVars, interpVars, integration_method, calls>>

\* a mutation: the profile doubled instead of squared
VolumeExprDoubled(e) == [pi |-> e.pi + 1, poly |-> PolyScale(e.poly, Q(2))]

\* line 183: volume_expr = sp.pi * expr**2
VolumeExpr(e) == [pi |-> e.pi + 1, poly |-> PolyMul(e.poly, e.poly)]

\* .evalf(): the value in floating point
Evalf(v) == [pi |-> v.pi, val |-> v.val, evalf |-> TRUE]

\* revolution_solid_volume, lines 181-184
VolumeCall ==
    /\ pc = "idle"
    /\ \E poly \in Polys(MaxVolDeg), lo \in Bounds, hi \in Bounds, cnt \in 1..MaxN,
          method \in Rules :
        \E volume_expr \in {VolumeExpr(Expr(poly))} :
        \E r \in {Rule(method, volume_expr, Q(lo), Q(hi), cnt)} :
            /\ expr' = Expr(poly)
            /\ lower_bound' = lo
            /\ upper_bound' = hi
            /\ n' = cnt
            /\ integration_method' = method
            /\ calls' = <<[method |-> method, expr |-> volume_expr, lower_bound |-> lo,
                           upper_bound |-> hi, n |-> cnt]>>
            /\ IF r.err # "none"
               THEN pc' = "raised" /\ err' = r.err /\ ret' = NoValue
               ELSE pc' = "returned" /\ err' = "none"
                    /\ ret' = Evalf([pi |-> r.pi, val |-> r.val])
    /\ op' = "revolution_solid_volume"
    /\ UNCHANGED <<loopVars, odeVars, interpVars, n_used>>

NextQuad ==
    \/ MidpointCall
    \/ TrapezoidalCall
    \/ SimpsonCall
    \/ Simpson38Call
    \/ GaussCall

SpecQuad == Init /\ [][NextQuad]_vars

NextVolume == VolumeCall

SpecVolume == Init /\ [][NextVolume]_vars

(***************************************************************************)
(* Claims about quadrature.                                                *)
(***************************************************************************)
RECURSIVE IntPow(_, _)
IntPow(b, k) == IF k = 0 THEN 1 ELSE b * IntPow(b, k - 1)

\* the integral of poly over [lo, hi], term by term: c * (hi^k - lo^k) / k
\* (test_integration_methods, line 232: sp.integrate(expr, (x, a, b)))
RECURSIVE ExactIntegral(_, _, _, _)
ExactIntegral(poly, lo, hi, k) ==
    IF k = 0 THEN Zero
    ELSE QAdd(QMul(poly[k], Norm(IntPow(hi, k) - IntPow(lo, k), k)),
              ExactIntegral(poly, lo, hi, k - 1))

RECURSIVE Degree(_)
Degree(poly) ==
    IF Len(poly) <= 1 THEN 0
    ELSE IF poly[Len(poly)] # Zero THEN Len(poly) - 1
    ELSE Degree(SubSeq(poly, 1, Len(poly) - 1))

\* the highest degree a rule is exact for
ExactnessDegree(method, cnt) ==
    CASE method \in {"midpoint_rule", "trapezoidal_rule"} -> 1
      [] method \in {"simpson_rule", "simpson_38_rule"} -> 3
      [] method = "gauss_legendre" -> 2 * cnt - 1

\* the rational q as a value of the rule
AsValue(method, q) ==
    IF method = "gauss_legendre" THEN [rat |-> S(q), irr |-> <<>>] ELSE q

\* -v for a value v of the rule
Negated(method, v) ==
    IF method = "gauss_legendre"
    THEN [rat |-> SNeg(v.rat), irr |-> [sq \in DOMAIN v.irr |-> SNeg(v.irr[sq])]]
    ELSE QNeg(v)

IsRule == op \in Rules

\* C2: a rule applied to a polynomial of degree at most the rule's exactness degree
\* (1 for midpoint and trapezoidal, 3 for both Simpson rules, 2m - 1 for
\* Gauss-Legendre with m points) returns the exact integral over [a, b].
C2_Exact ==
    (IsRule /\ pc = "returned" /\ Degree(expr.poly) <= ExactnessDegree(op, n))
        => ret.val = AsValue(op, ExactIntegral(expr.poly, lower_bound, upper_bound,
                                               Len(expr.poly)))

\* C2 for every rule but the 5-point Gauss-Legendre row
C2_ExactButFivePoints ==
    (IsRule /\ pc = "returned" /\ Degree(expr.poly) <= ExactnessDegree(op, n)
        /\ ~(op = "gauss_legendre" /\ n = 5))
        => ret.val = AsValue(op, ExactIntegral(expr.poly, lower_bound, upper_bound,
                                               Len(expr.poly)))

\* C3: the Simpson rules never fail on a positive n; simpson_rule works with n + 1
\* for an odd n (and returns what a call with n + 1 returns) and with n itself for an
\* even n; simpson_38_rule works with the smallest multiple of 3 that is >= n.
C3_SimpsonRounding ==
    /\ (op = "simpson_rule" /\ pc # "idle") =>
        /\ pc = "returned"
        /\ n_used = (IF n % 2 = 0 THEN n ELSE n + 1)
        /\ ret.val = simpson_rule(expr, Q(lower_bound), Q(upper_bound), n_used).val
        /\ ret.val = SimpsonSum(expr.poly, Q(lower_bound), Q(upper_bound), n_used)
    /\ (op = "simpson_38_rule" /\ pc # "idle") =>
        /\ pc = "returned"
        /\ n_used % 3 = 0 /\ n_used >= n
        /\ \A m \in n..(n_used - 1) : m % 3 # 0
        /\ ret.val = simpson_38_rule(expr, Q(lower_bound), Q(upper_bound), n_used).val
        /\ ret.val = Simpson38Sum(expr.poly, Q(lower_bound), Q(upper_bound), n_used)

\* simpson_rule has been called with n = 3 and a cubic, and worked with 4 subintervals
C3_Witness ==
    /\ op = "simpson_rule" /\ pc = "returned"
    /\ n = 3 /\ n_used = 4
    /\ Degree(expr.poly) = 3
    /\ lower_bound < upper_bound

VolumeCallMade ==
    calls = <<[method |-> integration_method,
               expr |-> [pi |-> 1, poly |-> PolyMul(expr.poly, expr.poly)],
               lower_bound |-> lower_bound, upper_bound |-> upper_bound, n |-> n]>>

\* what the rule called gives for pi * expr^2
VolumeRuleResult ==
    Rule(integration_method, [pi |-> 1, poly |-> PolyMul(expr.poly, expr.poly)],
         Q(lower_bound), Q(upper_bound), n)

IsVolume == op = "revolution_solid_volume"

\* C9 as stated: for every positive n and each of the five rules,
\* revolution_solid_volume calls the rule exactly once with pi*expr^2, a, b and n, and
\* returns the rule's value.
C9_ReturnsRuleValue ==
    (IsVolume /\ pc # "idle") =>
        /\ VolumeCallMade
        /\ pc = "returned"
        /\ VolumeRuleResult.err = "none"
        /\ ret.pi = VolumeRuleResult.pi /\ ret.val = VolumeRuleResult.val

\* C9 as amended: the rule is called exactly once with pi*expr^2, a, b and n; when the
\* rule returns, its value is returned, evaluated numerically; when the rule raises
\* (gauss_legendre with n > 5) the error reaches the caller and nothing is returned.
C9_Delegates ==
    (IsVolume /\ pc # "idle") =>
        /\ VolumeCallMade
        /\ (VolumeRuleResult.err = "none") <=> ~(integration_method = "gauss_legendre" /\ n > 5)
        /\ IF VolumeRuleResult.err = "none"
           THEN /\ pc = "returned"
                /\ ret = [pi |-> 1, val |-> VolumeRuleResult.val, evalf |-> TRUE]
           ELSE pc = "raised" /\ err = VolumeRuleResult.err /\ ret = NoValue

\* the volume of the profile x + 1 over [0, 1] by simpson_rule is pi * 7/3
C9_Witness ==
    /\ IsVolume /\ pc = "returned"
    /\ integration_method = "simpson_rule"
    /\ expr.poly = <<One, One>> /\ lower_bound = 0 /\ upper_bound = 1
    /\ ret.pi = 1 /\ ret.val = <<7, 3>>

\* C10: swapping the bounds negates the result of every rule.
C10_SwapNegates ==
    (IsRule /\ pc = "returned")
        => ret.val = Negated(op, Rule(op, expr, Q(upper_bound), Q(lower_bound), n).val)

\* C10 for every rule but the 5-point Gauss-Legendre row
C10_SwapNegatesButFivePoints ==
    (IsRule /\ pc = "returned" /\ ~(op = "gauss_legendre" /\ n = 5))
        => ret.val = Negated(op, Rule(op, expr, Q(upper_bound), Q(lower_bound), n).val)

(***************************************************************************)
(* Time steppers of finiteDifferences.py.  The right-hand side f is a      *)
(* callable of the caller; the ones drawn here are named by a string.      *)
(* Times and values are integers, so every float operation of the code is  *)
(* exact here.                                                             *)
(***************************************************************************)
MaxSteps == 3

MaxT0 == 1

MaxX0 == 2

HVals == {1, 2}

ThetaVals == {0, 1}

Fs == {"one", "x", "t_plus_x", "neg_x"}

\* f(t, x)
F(fn, t, x) ==
    CASE fn = "one" -> 1
      [] fn = "x" -> x
      [] fn = "t_plus_x" -> t + x
      [] fn = "neg_x" -> 0 - x

\* lines 26-29: the loop of explicit_euler, cnt iterations left
RECURSIVE EulerLoop(_, _, _, _, _, _)
EulerLoop(fn, t, x, hh, cnt, result) ==
    IF cnt <= 0 THEN result
    ELSE LET x1 == x + hh * F(fn, t, x)
             t1 == t + hh
         IN  EulerLoop(fn, t1, x1, hh, cnt - 1, Append(result, <<t1, x1>>))

\* explicit_euler, lines 22-30
explicit_euler(fn, ta, xa, hh, cnt) == EulerLoop(fn, ta, xa, hh, cnt, <<<<ta, xa>>>>)

\* line 63: range(20)
FixedPointIters == 20

\* line 65: abs(y_new - y) < 1e-12; the values are integers
Converged(y_new, y) == Abs(y_new - y) < 1

\* lines 63-67: the fixed-point loop, its iterations left; the value is y_new
RECURSIVE FixedPointLoop(_, _, _, _, _, _, _, _)
FixedPointLoop(fn, t, x, hh, th, t_next, y, left) ==
    LET y_new == x + hh * ((1 - th) * F(fn, t, x) + th * F(fn, t_next, y))
    IN  IF Converged(y_new, y) \/ left = 1 THEN y_new
        ELSE FixedPointLoop(fn, t, x, hh, th, t_next, y_new, left - 1)

\* lines 60-68: the loop over range(steps).  Nothing in its body assigns t or
\* x, so every iteration starts from the same t and x; loc holds the locals
\* t_next and x_new, unbound until the body has run once.
RECURSIVE ThetaLoop(_, _, _, _, _, _, _)
ThetaLoop(fn, t, x, hh, th, cnt, loc) ==
    IF cnt <= 0 THEN loc
    ELSE LET t_next == t + hh
             x_new == FixedPointLoop(fn, t, x, hh, th, t_next, x, FixedPointIters)
         IN  ThetaLoop(fn, t, x, hh, th, cnt - 1,
                       [bound |-> TRUE, t_next |-> t_next, x_new |-> x_new])

\* theta_method, lines 50-71: line 69 reads x_new and t_next after the loop,
\* line 70 appends one pair
theta_method(fn, ta, xa, hh, cnt, th) ==
    LET loc == ThetaLoop(fn, ta, xa, hh, th, cnt,
                         [bound |-> FALSE, t_next |-> 0, x_new |-> 0])
    IN  IF ~loc.bound
        THEN [err |-> "UnboundLocalError", val |-> <<>>]
        ELSE [err |-> "none", val |-> <<<<ta, xa>>, <<loc.t_next, loc.x_new>>>>]

\* a call of explicit_euler(f_rhs, t0, x0, h_step, steps), to its return
ExplicitEulerCall ==
    /\ pc = "idle"
    /\ \E fn \in Fs, ta \in 0..MaxT0, xa \in 0..MaxX0, hh \in HVals, cnt \in 0..MaxSteps :
        /\ f_rhs' = fn
        /\ t0' = ta
        /\ x0' = xa
        /\ h_step' = hh
        /\ steps' = cnt
        /\ ret' = explicit_euler(fn, ta, xa, hh, cnt)
    /\ op' = "explicit_euler"
    /\ pc' = "returned"
    /\ err' = "none"
    /\ UNCHANGED <<loopVars, theta, interpVars, quadVars>>

\* a call of theta_method(f_rhs, t0, x0, h_step, steps, theta), to its return or raise
ThetaCall ==
    /\ pc = "idle"
    /\ \E fn \in Fs, ta \in 0..MaxT0, xa \in 0..MaxX0, hh \in HVals, cnt \in 0..MaxSteps,
          th \in ThetaVals :
        \E r \in {theta_method(fn, ta, xa, hh, cnt, th)} :
            /\ f_rhs' = fn
            /\ t0' = ta
            /\ x0' = xa
            /\ h_step' = hh
            /\ steps' = cnt
            /\ theta' = th
            /\ IF r.err # "none"
               THEN pc' = "raised" /\ err' = r.err /\ ret' = NoValue
               ELSE pc' = "returned" /\ err' = "none" /\ ret' = r.val
    /\ op' = "theta_method"
    /\ UNCHANGED <<loopVars, interpVars, quadVars>>

NextODE == ExplicitEulerCall \/ ThetaCall

SpecODE == Init /\ [][NextODE]_vars

(***************************************************************************)
(* Claims about the time steppers.                                         *)
(***************************************************************************)
IsThetaZero == op = "theta_method" /\ theta = 0

\* k applications of x -> x + h*f(t, x) from (t0, x0), t advancing by h
RECURSIVE ForwardEulerX(_, _, _, _, _)
ForwardEulerX(fn, t, x, hh, k) ==
    IF k = 0 THEN x ELSE ForwardEulerX(fn, t + hh, x + hh * F(fn, t, x), hh, k - 1)

\* C11: theta_method with theta = 0 returns the list explicit_euler returns
\* for the same f, t0, x0, h and steps >= 0: steps+1 pairs, the k-th being
\* (t0 + k*h, k forward Euler steps from x0)
C11_ThetaZeroIsEuler ==
    IsThetaZero =>
        /\ pc = "returned"
        /\ ret = explicit_euler(f_rhs, t0, x0, h_step, steps)
        /\ Len(ret) = steps + 1
        /\ \A k \in 0..steps :
            ret[k + 1] = <<t0 + k * h_step, ForwardEulerX(f_rhs, t0, x0, h_step, k)>>

\* explicit_euler itself returns the steps+1 pairs of the forward Euler method
C11_ExplicitEulerIsForwardEuler ==
    op = "explicit_euler" =>
        /\ pc = "returned"
        /\ Len(ret) = steps + 1
        /\ \A k \in 0..steps :
            ret[k + 1] = <<t0 + k * h_step, ForwardEulerX(f_rhs, t0, x0, h_step, k)>>

\* the two agree when exactly one step is asked for
C11_ThetaZeroIsEulerOneStep ==
    (IsThetaZero /\ steps = 1) =>
        pc = "returned" /\ ret = explicit_euler(f_rhs, t0, x0, h_step, steps)

\* whatever steps >= 1 is, theta_method returns two pairs: one step from (t0, x0)
C11_ThetaReturnsOneStep ==
    (IsThetaZero /\ steps >= 1) =>
        /\ pc = "returned"
        /\ ret = explicit_euler(f_rhs, t0, x0, h_step, 1)

(***************************************************************************)
(* The quadrature rules again, one pass of a loop at a time: pc is "sum"   *)
(* in a rule's first loop and "sum2" in the second loop of simpson_rule.   *)
(* A pass is the body the whole-call operators above run, applied once.    *)
(***************************************************************************)
MaxLoopDeg == 2

SimpsonRules == {"simpson_rule", "simpson_38_rule"}

\* range(n) starts at 0, range(1, n, 2) and range(1, n) at 1
RangeStart(method) == IF method \in SimpsonRules THEN 1 ELSE 0

\* the stop of the range at hand: n, or n - 1 in range(2, n-1, 2)
RangeStop(method, at, m) == IF method = "simpson_rule" /\ at = "sum2" THEN m - 1 ELSE m

\* the step of the range at hand
RangeStep(method) == IF method = "simpson_rule" THEN 2 ELSE 1

\* dx = (upper_bound - lower_bound) / n (h in simpson_38_rule)
Dx(lo, hi, m) == QDiv(QSub(hi, lo), Q(m))

\* a mutation: the factors of the two loops of simpson_rule exchanged
NodeWeightSwapped(method, at, i) ==
    IF method = "simpson_rule" THEN (IF at = "sum" THEN 2 ELSE 4)
    ELSE (IF i % 3 = 0 THEN 2 ELSE 3)

\* the factor of expr.subs in the pass with loop variable i
NodeWeight(method, at, i) ==
    IF method = "simpson_rule" THEN (IF at = "sum" THEN 4 ELSE 2)
    ELSE (IF i % 3 = 0 THEN 2 ELSE 3)

\* total before the first loop
TotalBefore(method, poly, lo, hi) ==
    IF method \in SimpsonRules THEN QAdd(Subs(poly, lo), Subs(poly, hi)) ELSE Zero

\* the expr.subs calls before the first loop: at lower_bound and at upper_bound
EvalsBefore(method, m) ==
    IF method \in SimpsonRules
    THEN <<[i |-> 0, weight |-> 1], [i |-> m, weight |-> 1]>>
    ELSE <<>>

\* total after the pass with loop variable i (gauss_legendre: total is assigned
\* when sum() is done, so a pass of its generator leaves it alone)
LoopPass(method, at, poly, lo, hi, m, i, total) ==
    CASE method = "midpoint_rule" -> MidpointLoop(poly, lo, Dx(lo, hi, m), i + 1, i, total)
      [] method = "trapezoidal_rule" -> TrapezoidLoop(poly, lo, Dx(lo, hi, m), i + 1, i, total)
      [] method = "simpson_rule" ->
            WeightedLoop(poly, lo, Dx(lo, hi, m), i, i + 1, RangeStep(method),
                         NodeWeight(method, at, i), total)
      [] method = "simpson_38_rule" -> Simpson38Loop(poly, lo, Dx(lo, hi, m), i + 1, i, total)
      [] method = "gauss_legendre" -> total

\* the value the rule returns once its loops are done
LoopResult(method, poly, lo, hi, m, total) ==
    CASE method \in {"midpoint_rule", "trapezoidal_rule"} -> total
      [] method = "simpson_rule" -> QDiv(QMul(total, Dx(lo, hi, m)), Q(3))
      [] method = "simpson_38_rule" -> QDiv(QMul(QMul(total, Q(3)), Dx(lo, hi, m)), Q(8))
      [] method = "gauss_legendre" -> GaussSum(poly, lo, hi, m)

\* a call of a rule, up to its first loop (gauss_legendre: or to its raise)
RuleCall ==
    /\ pc = "idle"
    /\ \E method \in Rules, poly \in Polys(MaxLoopDeg), lo \in Bounds, hi \in Bounds,
          cnt \in 1..MaxN :
        /\ op' = method
        /\ expr' = Expr(poly)
        /\ lower_bound' = lo
        /\ upper_bound' = hi
        /\ n' = cnt
        /\ n_used' = AdjustedN(method, cnt)
        /\ IF method = "gauss_legendre" /\ ~InTable(cnt)
           THEN /\ pc' = "raised"
                /\ err' = "ValueError"
                /\ UNCHANGED <<loop_i, running_total, evals>>
           ELSE /\ pc' = "sum"
                /\ err' = "none"
                /\ loop_i' = RangeStart(method)
                /\ running_total' = TotalBefore(method, poly, Q(lo), Q(hi))
                /\ evals' = EvalsBefore(method, AdjustedN(method, cnt))
    /\ iterations' = 0
    /\ ret' = NoValue
    /\ UNCHANGED <<interpVars, odeVars, integration_method, calls>>

\* one pass of the loop at hand
RuleStep ==
    /\ pc \in {"sum", "sum2"}
    /\ loop_i < RangeStop(op, pc, n_used)
    /\ running_total' = LoopPass(op, pc, expr.poly, Q(lower_bound), Q(upper_bound),
                                 n_used, loop_i, running_total)
    /\ evals' = IF op \in SimpsonRules
                THEN Append(evals, [i |-> loop_i, weight |-> NodeWeight(op, pc, loop_i)])
                ELSE evals
    /\ loop_i' = loop_i + RangeStep(op)
    /\ iterations' = iterations + 1
    /\ UNCHANGED <<pc, op, interpVars, odeVars, quadVars, ret, err>>

\* simpson_rule: the first loop is done, the second starts at 2
RuleSecondLoop ==
    /\ pc = "sum"
    /\ op = "simpson_rule"
    /\ ~(loop_i < RangeStop(op, pc, n_used))
    /\ pc' = "sum2"
    /\ loop_i' = 2
    /\ UNCHANGED <<op, running_total, iterations, evals, interpVars, odeVars, quadVars,
                   ret, err>>

\* the last loop is done: the return statement
RuleReturn ==
    /\ \/ pc = "sum" /\ op # "simpson_rule"
       \/ pc = "sum2"
    /\ ~(loop_i < RangeStop(op, pc, n_used))
    /\ ret' = [pi |-> expr.pi,
               val |-> LoopResult(op, expr.poly, Q(lower_bound), Q(upper_bound), n_used,
                                  running_total)]
    /\ pc' = "returned"
    /\ UNCHANGED <<op, loopVars, interpVars, odeVars, quadVars, err>>

NextLoops ==
    \/ PiecewiseCall
    \/ PiecewiseStep
    \/ PiecewiseReturn
    \/ RuleCall
    \/ RuleStep
    \/ RuleSecondLoop
    \/ RuleReturn

SpecLoops == Init /\ [][NextLoops]_vars

\* what a step of a loop does to the position in the code: a pass moves the
\* loop variable on, the end of a loop moves pc on.  Under NextLoops a step
\* satisfies Advance exactly when it is PiecewiseStep, PiecewiseReturn,
\* RuleStep, RuleSecondLoop or RuleReturn.
Advance ==
    \/ /\ pc = "loop"
       /\ start < Len(points) - 1
       /\ start' = NextStart(start, pts_per_interval)
       /\ UNCHANGED <<pc, loop_i>>
    \/ /\ pc = "loop"
       /\ ~(start < Len(points) - 1)
       /\ pc' \in {"returned", "raised"}
       /\ UNCHANGED <<start, loop_i>>
    \/ /\ pc \in {"sum", "sum2"}
       /\ loop_i < RangeStop(op, pc, n_used)
       /\ loop_i' = loop_i + RangeStep(op)
       /\ UNCHANGED <<pc, start>>
    \/ /\ pc = "sum"
       /\ ~(loop_i < RangeStop(op, pc, n_used))
       /\ IF op = "simpson_rule" THEN pc' = "sum2" /\ loop_i' = 2
          ELSE pc' = "returned" /\ loop_i' = loop_i
       /\ UNCHANGED start
    \/ /\ pc = "sum2"
       /\ ~(loop_i < RangeStop(op, pc, n_used))
       /\ pc' = "returned"
       /\ UNCHANGED <<start, loop_i>>

\* the position in the code
position == <<pc, start, loop_i>>

\* the code is one thread that keeps running: a step that can be taken is taken
FairLoops == SpecLoops /\ WF_position(Advance)

(***************************************************************************)
(* Claims about the loops.                                                 *)
(***************************************************************************)
\* ceil(a / b) for a >= 0, b > 0
Ceil(a, b) == (a + b - 1) \div b

\* the pieces of N points taken k at a time: ceil((N-1)/(k-1))
PieceCount == Ceil(Len(points) - 1, pts_per_interval - 1)

\* the passes a rule's loops make for the adjusted n
PassCount == IF op \in SimpsonRules THEN n_used - 1 ELSE n_used

InLoop == pc \in {"loop", "sum", "sum2"}

\* the rule's own whole-call value: the passes, taken one at a time, compute it
LoopsComputeRule ==
    (IsRule /\ pc = "returned") =>
        \E r \in {Rule(op, expr, Q(lower_bound), Q(upper_bound), n)} :
            r.err = "none" /\ ret = [pi |-> r.pi, val |-> r.val]

\* C12: every routine runs to completion.  piecewise_lagrange_interpolation,
\* called with N >= 2 points and pts_per_interval k >= 2, returns, having made
\* exactly ceil((N-1)/(k-1)) pieces; every quadrature rule that entered its
\* loop returns after a number of passes linear in the adjusted n (n for
\* midpoint, trapezoidal and Gauss-Legendre, n - 1 for the two Simpson rules),
\* and never makes more on the way.
C12_RunsToCompletion ==
    /\ [](IsPiecewise /\ Len(points) >= 2 => Len(pieces) <= PieceCount)
    /\ [](IsRule => iterations <= PassCount)
    /\ (IsPiecewise /\ pc = "loop" /\ Len(points) >= 2)
          ~> (pc = "returned" /\ Len(pieces) = PieceCount)
    /\ (IsRule /\ pc \in {"sum", "sum2"})
          ~> (pc = "returned" /\ iterations = PassCount)

\* four points taken three at a time: two pieces, and the call has returned
C12_Witness ==
    /\ IsPiecewise
    /\ pc = "returned"
    /\ Len(points) = 4
    /\ pts_per_interval = 3
    /\ Len(pieces) = 2

\* simpson_rule with n = 5 returned after the 5 passes of its two loops (n_used = 6)
C12_WitnessRule ==
    /\ op = "simpson_rule"
    /\ pc = "returned"
    /\ n = 5
    /\ iterations = 5

\* the factor the claim gives node i: 1 at the ends, then 4 at odd and 2 at even
\* i (simpson_rule), 2 at multiples of 3 and 3 elsewhere (simpson_38_rule)
ClaimedWeight(method, i, m) ==
    IF i = 0 \/ i = m THEN 1
    ELSE IF method = "simpson_rule" THEN (IF i % 2 = 1 THEN 4 ELSE 2)
    ELSE (IF i % 3 = 0 THEN 2 ELSE 3)

\* dx/3 for simpson_rule, 3*dx/8 for simpson_38_rule
ClaimedScale(method, lo, hi, m) ==
    IF method = "simpson_rule" THEN QDiv(Dx(lo, hi, m), Q(3))
    ELSE QDiv(QMul(Q(3), Dx(lo, hi, m)), Q(8))

RECURSIVE WeightSum(_, _)
WeightSum(es, k) == IF k = 0 THEN 0 ELSE es[k].weight + WeightSum(es, k - 1)

\* the sum over the first k calls of weight * expr.subs(x, lower_bound + i*dx)
RECURSIVE WeightedValues(_, _, _, _, _)
WeightedValues(es, poly, lo, dx, k) ==
    IF k = 0 THEN Zero
    ELSE QAdd(QMul(Q(es[k].weight), Subs(poly, QAdd(lo, QMul(Q(es[k].i), dx)))),
              WeightedValues(es, poly, lo, dx, k - 1))

\* C14: a Simpson rule that returned has evaluated each of the nodes
\* x_i = a + i*dx, i = 0..n (n adjusted), exactly once, with factor 1 at i = 0
\* and i = n and, inside, 4 at odd and 2 at even i (simpson_rule) or 2 at
\* multiples of 3 and 3 elsewhere (simpson_38_rule); the value returned is the
\* sum of the factors times the values, scaled by dx/3 (3*dx/8); the scaled
\* factors sum to b - a.
C14_SimpsonWeights ==
    (op \in SimpsonRules /\ pc = "returned") =>
        LET lo == Q(lower_bound)
            hi == Q(upper_bound)
            scale == ClaimedScale(op, lo, hi, n_used)
        IN  /\ Len(evals) = n_used + 1
            /\ \A node \in 0..n_used :
                   Cardinality({j \in 1..Len(evals) : evals[j].i = node}) = 1
            /\ \A j \in 1..Len(evals) :
                   evals[j].weight = ClaimedWeight(op, evals[j].i, n_used)
            /\ ret.val = QMul(WeightedValues(evals, expr.poly, lo, Dx(lo, hi, n_used),
                                             Len(evals)), scale)
            /\ QMul(Q(WeightSum(evals, Len(evals))), scale) = QSub(hi, lo)

\* simpson_rule with n = 3 (worked with 4): nodes 0 and 4, then 1 and 3 with
\* factor 4, then 2 with factor 2
C14_Witness ==
    /\ op = "simpson_rule"
    /\ pc = "returned"
    /\ n = 3
    /\ lower_bound # upper_bound
    /\ evals = <<[i |-> 0, weight |-> 1], [i |-> 4, weight |-> 1], [i |-> 1, weight |-> 4],
                 [i |-> 3, weight |-> 4], [i |-> 2, weight |-> 2]>>

\* simpson_38_rule with n = 4 (worked with 6): factor 2 at node 3, 3 at 1, 2, 4, 5
C14_Witness38 ==
    /\ op = "simpson_38_rule"
    /\ pc = "returned"
    /\ n = 4
    /\ n_used = 6
    /\ \E j \in 1..Len(evals) : evals[j] = [i |-> 3, weight |-> 2]

(***************************************************************************)
(* Claims about the table of gauss_legendre.                               *)
(***************************************************************************)
QSign(q) == IF q[1] > 0 THEN 1 ELSE IF q[1] < 0 THEN -1 ELSE 0

\* the sign of the surd u + v*r, r the positive root of rr
SurdSign(x, rr) ==
    LET su == QSign(x[1])
        sv == QSign(x[2])
    IN  IF sv = 0 THEN su
        ELSE IF su = 0 \/ su = sv THEN sv
        ELSE su * QSign(QSub(QMul(x[1], x[1]), QMul(QMul(x[2], x[2]), rr)))

SLess(x, y, rr) == SurdSign(SAdd(y, SNeg(x)), rr) = 1

RECURSIVE RowWeightSum(_, _)
RowWeightSum(row, k) ==
    IF k = 0 THEN SZero ELSE SAdd(weights[row][k], RowWeightSum(row, k - 1))

\* both tables hold row entries
RowSize(row) == Len(nodes[row]) = row /\ Len(weights[row]) = row

\* the weights of the row sum to 2
RowSumsToTwo(row) == RowWeightSum(row, Len(weights[row])) = S(Q(2))

\* with every node the row holds the negated node, under the same weight
RowMirror(row) ==
    \A i \in 1..Len(nodes[row]) :
        \E j \in 1..Len(nodes[row]) :
            /\ nodes[row][j].sgn = 0 - nodes[row][i].sgn
            /\ nodes[row][j].sq = nodes[row][i].sq
            /\ weights[row][j] = weights[row][i]

\* a node nearer 0 than another carries the larger weight (|node| = sqrt(sq))
RowNearerIsHeavier(row) ==
    \A i, j \in 1..Len(nodes[row]) :
        SLess(nodes[row][i].sq, nodes[row][j].sq, Radicand(row))
            => SLess(weights[row][j], weights[row][i], Radicand(row))

GaussReturned == op = "gauss_legendre" /\ pc = "returned"

\* C13: for the point count n of a gauss_legendre call that returned (n in
\* 1..5), the node row and the weight row hold n entries each, the weight at
\* index i being that of the node at index i: with every node the row holds
\* the negated node under the same weight, a node nearer 0 carries the larger
\* weight, and the weights sum to 2.
C13_TablePairing ==
    GaussReturned =>
        /\ n \in 1..5
        /\ RowSize(n)
        /\ RowMirror(n)
        /\ RowNearerIsHeavier(n)
        /\ RowSumsToTwo(n)

\* the rows of 1 to 4 points are as described
C13_TablePairingButFivePoints ==
    (GaussReturned /\ n # 5) =>
        /\ n \in 1..4
        /\ RowSize(n)
        /\ RowMirror(n)
        /\ RowNearerIsHeavier(n)
        /\ RowSumsToTwo(n)

\* every row has its n entries, summing to 2
C13_SizesAndSums == GaussReturned => (n \in 1..5 /\ RowSize(n) /\ RowSumsToTwo(n))

\* the row of 5 points is neither mirror-symmetric nor ordered by weight
C13_FivePointRowMispaired ==
    (GaussReturned /\ n = 5) => (~RowMirror(n) /\ ~RowNearerIsHeavier(n))

====
